---- MODULE Spec2Model ----
(***************************************************************************)
(* A model of pdns_zkns.py: the PowerDNS remote backend that answers DNS   *)
(* queries from Zookeeper serversets.                                      *)
(*                                                                         *)
(* Python strings that the program takes apart (hostnames, base domain,    *)
(* Zookeeper paths, the SOA text) are sequences of one-character strings,  *)
(* so that strip, lower, rpartition, split, join and int() are computed as *)
(* the code computes them.  Opaque strings (instance hosts, qtype, qkind)  *)
(* are TLA+ strings.  Python's None is the empty tuple and an int n the    *)
(* tuple <<n>> wherever a value may be either.                             *)
(***************************************************************************)
EXTENDS Integers, Sequences, FiniteSets, TLC

VARIABLES
    server,     \* the ZknsServer object: domain, ttl, soa_data
    store,      \* the Zookeeper tree behind self.zkclient: path -> serverset
    request,    \* the request being served (or the construct_paths call)
    pc,         \* where the handler of that request stands
    zkpaths,    \* the construct_paths generator held by resolve_hostname
    yielded,    \* the candidates that generator has yielded so far
    reads,      \* the serversets read from the store while serving the request
    resolved,   \* what resolve_hostname returned
    response    \* the handler's return value

vars == <<server, store, request, pc, zkpaths, yielded, reads, resolved, response>>

-----------------------------------------------------------------------------
(* Bounds of the model. *)

\* Most labels put before the suffix of a hostname given to construct_paths.
MaxLabels == 3

\* Most labels put before the base domain of a query name sent to the server.
MaxDepth == 3

\* Most instances registered in the store at any time, over all paths.
MaxRegistered == 2

-----------------------------------------------------------------------------
(* Flag defaults (pdns_zkns.py:35-50). *)

FlagTtl == 60
FlagSoaTtl == 300
FlagSoaRefresh == 1200
FlagSoaRetry == 180
FlagSoaExpire == 86400
FlagSoaNxdomainTtl == 60

\* --domain: a two-label zone standing for 'zk.example.com', given with a
\* trailing dot so that ZknsServer.__init__'s strip has something to do.
FlagDomain == <<"z", ".", "c", ".">>

None == <<>>
Some(n) == <<n>>

-----------------------------------------------------------------------------
(* Python string operations. *)

Digits == <<"0", "1", "2", "3", "4", "5", "6", "7", "8", "9">>

IsDigit(c) == \E i \in 1..10 : Digits[i] = c

DigitVal(c) == (CHOOSE i \in 1..10 : Digits[i] = c) - 1

\* str.lower() on one character of the model's alphabet.
LowerChar(c) ==
    CASE c = "A" -> "a"
      [] c = "B" -> "b"
      [] c = "C" -> "c"
      [] c = "Z" -> "z"
      [] OTHER -> c

\* str.lower()
Lower(s) == [i \in 1..Len(s) |-> LowerChar(s[i])]

RECURSIVE LStrip(_, _)
\* str.lstrip(ch)
LStrip(s, ch) ==
    IF s # <<>> /\ Head(s) = ch THEN LStrip(Tail(s), ch) ELSE s

RECURSIVE RStrip(_, _)
\* str.rstrip(ch)
RStrip(s, ch) ==
    IF s # <<>> /\ s[Len(s)] = ch THEN RStrip(SubSeq(s, 1, Len(s) - 1), ch) ELSE s

\* str.strip(ch)
Strip(s, ch) == RStrip(LStrip(s, ch), ch)

\* str.endswith(suffix)
EndsWith(s, suffix) ==
    /\ Len(suffix) <= Len(s)
    /\ SubSeq(s, Len(s) - Len(suffix) + 1, Len(s)) = suffix

\* str.rfind(sep) + 1: where the last occurrence of sep starts, 0 if none.
RFind(s, sep) ==
    LET at == {i \in 1..(Len(s) - Len(sep) + 1) :
                  SubSeq(s, i, i + Len(sep) - 1) = sep}
    IN  IF at = {} THEN 0 ELSE CHOOSE i \in at : \A j \in at : j <= i

\* str.rpartition(sep): <<head, sep, tail>> around the last occurrence of sep,
\* <<'', '', s>> when sep does not occur.
RPartition(s, sep) ==
    LET i == RFind(s, sep)
    IN  IF i = 0
        THEN <<<<>>, <<>>, s>>
        ELSE <<SubSeq(s, 1, i - 1), sep, SubSeq(s, i + Len(sep), Len(s))>>

RECURSIVE Split(_, _)
\* str.split(ch): always at least one piece, '' splits into [''].
Split(s, ch) ==
    LET at == {i \in 1..Len(s) : s[i] = ch}
    IN  IF at = {}
        THEN <<s>>
        ELSE LET i == CHOOSE k \in at : \A j \in at : k <= j
             IN  <<SubSeq(s, 1, i - 1)>> \o Split(SubSeq(s, i + 1, Len(s)), ch)

RECURSIVE Join(_, _)
\* sep.join(parts)
Join(parts, sep) ==
    IF parts = <<>> THEN <<>>
    ELSE IF Len(parts) = 1 THEN parts[1]
    ELSE parts[1] \o <<sep>> \o Join(Tail(parts), sep)

\* list(reversed(xs))
Reversed(xs) == [i \in 1..Len(xs) |-> xs[Len(xs) + 1 - i]]

RECURSIVE DigitsValue(_)
\* The value of a run of decimal digits.
DigitsValue(ds) ==
    IF ds = <<>> THEN 0
    ELSE 10 * DigitsValue(SubSeq(ds, 1, Len(ds) - 1)) + DigitVal(ds[Len(ds)])

\* int(s) of Python 2 on a str: an optional sign, then decimal digits; anything
\* else raises ValueError (ok = FALSE).  (Surrounding whitespace, which int()
\* also accepts, is not in the model's alphabet.)
PyInt(s) ==
    LET signed == s # <<>> /\ s[1] \in {"-", "+"}
        ds     == IF signed THEN Tail(s) ELSE s
        ok     == ds # <<>> /\ \A i \in 1..Len(ds) : IsDigit(ds[i])
    IN  [ok  |-> ok,
         val |-> IF ~ok THEN 0
                 ELSE IF signed /\ s[1] = "-" THEN 0 - DigitsValue(ds)
                 ELSE DigitsValue(ds)]

RECURSIVE NatStr(_)
\* '%s' % n for an int n >= 0: its decimal digits.
NatStr(n) ==
    IF n < 10 THEN <<Digits[n + 1]>>
    ELSE NatStr(n \div 10) \o <<Digits[(n % 10) + 1]>>

-----------------------------------------------------------------------------
(* construct_paths (pdns_zkns.py:160-198), a generator. *)

\* Lines 174-177: the query record left of the base domain.
QRec(hostname, basedomain) ==
    IF basedomain # <<>>
    THEN RPartition(Strip(hostname, "."), basedomain)[1]
    ELSE Strip(hostname, ".")

\* Line 180: the labels of the query record, outermost first.
PathComponents(hostname, basedomain) ==
    Reversed(Split(Strip(QRec(hostname, basedomain), "."), "."))

\* Lines 184-188: the shard number taken from the last component, if int()
\* accepts it; the components and the shard the loop starts with.
ShardSplit(path_components) ==
    LET last == path_components[Len(path_components)]
        n    == PyInt(last)
    IN  IF n.ok
        THEN [path_components |-> SubSeq(path_components, 1, Len(path_components) - 1),
              shard |-> Some(n.val)]
        ELSE [path_components |-> path_components, shard |-> None]

\* Lines 197-198: the last element extended with the previous one,
\* ['a', 'b', 'c', 'f.e.d'] --> ['a', 'b', 'f.e.d.c'].
Coalesce(path_components) ==
    LET n    == Len(path_components)
        elem == path_components[n] \o <<".">> \o path_components[n - 1]
    IN  Append(SubSeq(path_components, 1, n - 2), elem)

\* Calling construct_paths: the generator before its first next().
GenCreate(hostname, basedomain) ==
    LET s == ShardSplit(PathComponents(hostname, basedomain))
    IN  [state |-> "created", path_components |-> s.path_components, shard |-> s.shard]

\* next() on the generator: run to the next yield (line 191) or to the end
\* (the while test of line 190 failing, or the return of line 193).
GenNext(g) ==
    LET pcs == IF g.state = "created" THEN g.path_components
               ELSE IF g.state = "finished" \/ Len(g.path_components) = 1 THEN <<>>
               ELSE Coalesce(g.path_components)
    IN  IF pcs = <<>>
        THEN [stop |-> TRUE, value |-> <<>>,
              gen |-> [g EXCEPT !.state = "finished", !.path_components = <<>>]]
        ELSE [stop |-> FALSE, value |-> <<Join(pcs, "/"), g.shard>>,
              gen |-> [g EXCEPT !.state = "suspended", !.path_components = pcs]]

RECURSIVE Drain(_)
\* list(g): everything the generator yields from here on.
Drain(g) ==
    LET r == GenNext(g)
    IN  IF r.stop THEN <<>> ELSE <<r.value>> \o Drain(r.gen)

\* list(construct_paths(hostname, basedomain))
ConstructPaths(hostname, basedomain) == Drain(GenCreate(hostname, basedomain))

-----------------------------------------------------------------------------
(* SOAData and ZknsServer construction (pdns_zkns.py:53-68, 85-89, 207-223). *)

\* SOAData.__str__: '%(ns)s %(email)s %(refresh)s 1 %(retry)s %(expire)s
\* %(nxdomain_ttl)s' % self.__dict__
SOAStr(soa) ==
    soa.ns \o <<" ">> \o soa.email \o <<" ">> \o NatStr(soa.refresh)
        \o <<" ", "1", " ">> \o NatStr(soa.retry) \o <<" ">> \o NatStr(soa.expire)
        \o <<" ">> \o NatStr(soa.nxdomain_ttl)

\* main(): the SOAData built from the flags; --soa_nameserver and --soa_email
\* are left blank, so both are generated from --domain.
MainSoaData ==
    [ttl          |-> FlagSoaTtl,
     ns           |-> <<"n", "s", "1", ".">> \o FlagDomain,
     email        |-> <<"r", "o", "o", "t", ".">> \o FlagDomain,
     refresh      |-> FlagSoaRefresh,
     retry        |-> FlagSoaRetry,
     expire       |-> FlagSoaExpire,
     nxdomain_ttl |-> FlagSoaNxdomainTtl]

\* ZknsServer.__init__
ZknsServerInit(domain, ttl, soa_data) ==
    [domain |-> Strip(domain, "."), ttl |-> ttl, soa_data |-> soa_data]

-----------------------------------------------------------------------------
(* The Zookeeper store and its serversets. *)

\* Serverset instances: service_endpoint.host, service_endpoint.port, shard.
InstancePool ==
    {[host |-> "10.0.0.1", port |-> 8080, shard |-> Some(0)],
     [host |-> "10.0.0.2", port |-> 8081, shard |-> Some(1)],
     [host |-> "10.0.0.3", port |-> 8082, shard |-> None]}

\* The serversets of at most n members, each instance registered once.
SSetsUpTo(n) ==
    {s \in UNION {[1..k -> InstancePool] : k \in 0..n} :
        \A i, j \in 1..Len(s) : s[i] = s[j] => i = j}

\* The Zookeeper paths that hold a serverset node: a job registered as
\* b/a, and one registered flat as a.b.  Every other path is a missing node.
StorePaths == {<<"b", "/", "a">>, <<"a", ".", "b">>}

RECURSIVE Registered(_, _)
\* The number of instances registered under the paths ps of store st.
Registered(st, ps) ==
    IF ps = {} THEN 0
    ELSE LET p == CHOOSE q \in ps : TRUE
         IN  Len(st[p]) + Registered(st, ps \ {p})

\* list(serverset.ServerSet(self.zkclient, zkpath)): the members registered
\* under zkpath now; a missing node reads as no members.
ReadServerSet(st, zkpath) ==
    IF zkpath \in DOMAIN st THEN st[zkpath] ELSE <<>>

\* A read that creates the node it does not find (an ensure_path before the
\* read), as a variant of StoreAfterRead.
StoreAfterReadEnsurePath(st, zkpath) ==
    IF zkpath \in DOMAIN st THEN st ELSE (zkpath :> <<>>) @@ st

\* The store once that read is done: the read creates, changes and removes
\* nothing.
StoreAfterRead(st, zkpath) == st

-----------------------------------------------------------------------------
(* Responses. *)

\* dnsresponse(data): {'result': data}.  data is False (negative = TRUE, an
\* empty result) or a list.
DnsResponse(negative, data) == [negative |-> negative, result |-> data]

NoResponse == [negative |-> FALSE, result |-> <<"(pending)">>]

\* a_response answering with the normalised name instead of the name as
\* received, as a variant of AResponse.
AResponseNormalised(qname, instances) ==
    DnsResponse(FALSE,
        [i \in 1..Len(instances) |->
            [qtype   |-> "A",
             qname   |-> Strip(Lower(qname), "."),
             ttl     |-> server.ttl,
             content |-> instances[i].host]])

\* a_response's list comprehension over the instances resolve_hostname returned.
AResponse(qname, instances) ==
    DnsResponse(FALSE,
        [i \in 1..Len(instances) |->
            [qtype   |-> "A",
             qname   |-> qname,
             ttl     |-> server.ttl,
             content |-> instances[i].host]])

\* soa_response without the lower(), as a variant of SoaResponse.
SoaResponseCaseSensitive(qname) ==
    IF ~EndsWith(Strip(qname, "."), server.domain)
    THEN DnsResponse(TRUE, <<>>)
    ELSE DnsResponse(FALSE,
            <<[qtype   |-> "SOA",
               qname   |-> server.domain,
               ttl     |-> server.soa_data.ttl,
               content |-> SOAStr(server.soa_data)]>>)

\* soa_response
SoaResponse(qname) ==
    IF ~EndsWith(Strip(Lower(qname), "."), server.domain)
    THEN DnsResponse(TRUE, <<>>)
    ELSE DnsResponse(FALSE,
            <<[qtype   |-> "SOA",
               qname   |-> server.domain,
               ttl     |-> server.soa_data.ttl,
               content |-> SOAStr(server.soa_data)]>>)

\* Variants of Probe: one that returns the first member where the whole set is
\* due, one that ends the search at a non-empty set without the shard.
ProbeFirstMember(sset, shard) ==
    IF sset = <<>> THEN [found |-> FALSE, instances |-> <<>>]
    ELSE IF shard = None THEN [found |-> TRUE, instances |-> <<sset[1]>>]
    ELSE LET hits == {i \in 1..Len(sset) : sset[i].shard = shard}
         IN  IF hits = {} THEN [found |-> FALSE, instances |-> <<>>]
             ELSE [found |-> TRUE,
                   instances |-> <<sset[CHOOSE i \in hits : \A j \in hits : i <= j]>>]

ProbeEndsOnShardMiss(sset, shard) ==
    IF sset = <<>> THEN [found |-> FALSE, instances |-> <<>>]
    ELSE IF shard = None THEN [found |-> TRUE, instances |-> sset]
    ELSE LET hits == {i \in 1..Len(sset) : sset[i].shard = shard}
         IN  IF hits = {} THEN [found |-> TRUE, instances |-> <<>>]
             ELSE [found |-> TRUE,
                   instances |-> <<sset[CHOOSE i \in hits : \A j \in hits : i <= j]>>]

\* resolve_hostname, lines 146-154: what one serverset does to the search.
\* found = FALSE is the loop's continue.
Probe(sset, shard) ==
    IF sset = <<>> THEN [found |-> FALSE, instances |-> <<>>]
    ELSE IF shard = None THEN [found |-> TRUE, instances |-> sset]
    ELSE LET hits == {i \in 1..Len(sset) : sset[i].shard = shard}
         IN  IF hits = {} THEN [found |-> FALSE, instances |-> <<>>]
             ELSE [found |-> TRUE,
                   instances |-> <<sset[CHOOSE i \in hits : \A j \in hits : i <= j]>>]

-----------------------------------------------------------------------------
(* Inputs. *)

\* The sequences of at most n labels drawn from pool.
LabelSeqs(pool, n) == UNION {[1..k -> pool] : k \in 0..n}

\* The hostname with the given labels, then the suffix, then the tail.
Hostname(labels, suffix, tail) ==
    Join(labels \o suffix, ".") \o tail

\* Labels given to construct_paths: letters in both cases, shard numbers,
\* a signed number.
PathLabels == {<<"a">>, <<"b">>, <<"A">>, <<"0">>, <<"1", "2">>, <<"-", "1">>}

\* What follows them: the base domain, the base domain in capitals, nothing.
Suffixes == {<<<<"z">>, <<"c">>>>, <<<<"Z">>, <<"C">>>>, <<>>}

Hostnames ==
    {Hostname(ls, suf, tail) :
        ls \in LabelSeqs(PathLabels, MaxLabels), suf \in Suffixes,
        tail \in {<<>>, <<".">>}}

\* Labels of the names the server is queried for.
QueryLabels == {<<"a">>, <<"b">>, <<"0">>}

\* Query names: names under the base domain, and names that differ from it in
\* case, in dots, or are outside it.
QNames ==
    {Hostname(ls, <<<<"z">>, <<"c">>>>, <<>>) : ls \in LabelSeqs(QueryLabels, MaxDepth)}
    \cup {<<"Z", ".", "C", ".">>,
          <<"a", ".", "b", ".", "Z", ".", "c", ".">>,
          <<"A", ".", "B", ".", "z", ".", "c">>,
          <<"a", ".", "b">>,
          <<"z", ".", "c", ".", "a">>,
          <<"a", "z", ".", "c">>,
          <<"a", ".", "b", ".", "z", ".", "c", ".">>}

QTypes == {"A", "ANY", "SOA", "TXT"}

QKinds == {"SOA-EDIT", "PRESIGNED"}

-----------------------------------------------------------------------------
(* The server. *)

NoRequest == [op |-> "none", qname |-> <<>>, arg |-> ""]

Init ==
    /\ server = ZknsServerInit(FlagDomain, FlagTtl, MainSoaData)
    /\ store = [p \in StorePaths |-> <<>>]
    /\ request = NoRequest
    /\ pc = "idle"
    /\ zkpaths = GenCreate(<<>>, <<>>)
    /\ yielded = <<>>
    /\ reads = <<>>
    /\ resolved = <<>>
    /\ response = NoResponse

\* Something outside the server registers or removes instances under a path.
StoreChange(p, sset) ==
    /\ sset # store[p]
    /\ Registered([store EXCEPT ![p] = sset], StorePaths) <= MaxRegistered
    /\ store' = [store EXCEPT ![p] = sset]
    /\ UNCHANGED <<server, request, pc, zkpaths, yielded, reads, resolved, response>>

\* GET /dnsapi/lookup/<qname>/<qtype>: dnsapi_lookup up to its first read of
\* the store (A, ANY: a_response has called resolve_hostname, which has called
\* construct_paths) or to its return (every other qtype).
DnsapiLookup(qname, qtype) ==
    /\ pc = "idle"
    /\ request' = [op |-> "lookup", qname |-> qname, arg |-> qtype]
    /\ yielded' = <<>>
    /\ reads' = <<>>
    /\ resolved' = <<>>
    /\ IF qtype \in {"A", "ANY"}
       THEN /\ zkpaths' = GenCreate(qname, server.domain)
            /\ response' = NoResponse
            /\ pc' = "resolve"
       ELSE /\ response' = IF qtype = "SOA" THEN SoaResponse(qname)
                           ELSE DnsResponse(TRUE, <<>>)
            /\ pc' = "done"
            /\ UNCHANGED zkpaths
    /\ UNCHANGED <<server, store>>

\* One turn of resolve_hostname's loop: the next candidate, its serverset read
\* from the store, and the return through a_response when the search ends.
ResolveStep ==
    /\ pc = "resolve"
    /\ LET r == GenNext(zkpaths)
       IN  /\ zkpaths' = r.gen
           /\ IF r.stop
              THEN /\ resolved' = <<>>
                   /\ response' = AResponse(request.qname, <<>>)
                   /\ pc' = "done"
                   /\ UNCHANGED <<yielded, reads, store>>
              ELSE LET zkpath == r.value[1]
                       shard  == r.value[2]
                       sset   == ReadServerSet(store, zkpath)
                       probe  == Probe(sset, shard)
                   IN  /\ yielded' = Append(yielded, r.value)
                       /\ reads' = Append(reads, [zkpath |-> zkpath, sset |-> sset])
                       /\ store' = StoreAfterRead(store, zkpath)
                       /\ IF probe.found
                          THEN /\ resolved' = probe.instances
                               /\ response' = AResponse(request.qname, probe.instances)
                               /\ pc' = "done"
                          ELSE UNCHANGED <<resolved, response, pc>>
    /\ UNCHANGED <<server, request>>

\* getDomainMetadata answering ['EPOCH'] whatever the kind, as a variant of
\* DnsapiGetDomainMetadata.
DnsapiGetDomainMetadataAnyKind(qname, qkind) ==
    /\ pc = "idle"
    /\ request' = [op |-> "getDomainMetadata", qname |-> qname, arg |-> qkind]
    /\ response' = DnsResponse(FALSE, <<"EPOCH">>)
    /\ pc' = "done"
    /\ yielded' = <<>>
    /\ reads' = <<>>
    /\ resolved' = <<>>
    /\ UNCHANGED <<server, store, zkpaths>>

\* GET /dnsapi/getDomainMetadata/<qname>/<qkind>
DnsapiGetDomainMetadata(qname, qkind) ==
    /\ pc = "idle"
    /\ request' = [op |-> "getDomainMetadata", qname |-> qname, arg |-> qkind]
    /\ response' = IF qkind = "SOA-EDIT" THEN DnsResponse(FALSE, <<"EPOCH">>)
                   ELSE DnsResponse(TRUE, <<>>)
    /\ pc' = "done"
    /\ yielded' = <<>>
    /\ reads' = <<>>
    /\ resolved' = <<>>
    /\ UNCHANGED <<server, store, zkpaths>>

\* The handler has returned and the runtime has sent the response: the locals
\* of the call (the generator, the serversets read, the instances) are gone.
Respond ==
    /\ pc = "done"
    /\ pc' = "idle"
    /\ request' = NoRequest
    /\ zkpaths' = GenCreate(<<>>, <<>>)
    /\ yielded' = <<>>
    /\ reads' = <<>>
    /\ resolved' = <<>>
    /\ response' = NoResponse
    /\ UNCHANGED <<server, store>>

Next ==
    \/ \E p \in StorePaths, sset \in SSetsUpTo(MaxRegistered) : StoreChange(p, sset)
    \/ \E qname \in QNames, qtype \in QTypes : DnsapiLookup(qname, qtype)
    \/ ResolveStep
    \/ Respond
    \/ \E qname \in QNames, qkind \in QKinds : DnsapiGetDomainMetadata(qname, qkind)

Spec == Init /\ [][Next]_vars

-----------------------------------------------------------------------------
(* construct_paths on its own: one call per behaviour, drained to the end. *)

InitPaths ==
    /\ server = ZknsServerInit(FlagDomain, FlagTtl, MainSoaData)
    /\ store = [p \in StorePaths |-> <<>>]
    /\ \E h \in Hostnames :
        /\ request = [op |-> "construct_paths", qname |-> h, arg |-> ""]
        /\ zkpaths = GenCreate(h, server.domain)
    /\ pc = "iterating"
    /\ yielded = <<>>
    /\ reads = <<>>
    /\ resolved = <<>>
    /\ response = NoResponse

\* next() on the generator, as a for loop over construct_paths(...) calls it.
NextCandidate ==
    /\ pc = "iterating"
    /\ LET r == GenNext(zkpaths)
       IN  /\ zkpaths' = r.gen
           /\ IF r.stop
              THEN pc' = "exhausted" /\ UNCHANGED yielded
              ELSE yielded' = Append(yielded, r.value) /\ UNCHANGED pc
    /\ UNCHANGED <<server, store, request, reads, resolved, response>>

NextPaths == NextCandidate

SpecPaths == InitPaths /\ [][NextPaths]_vars

-----------------------------------------------------------------------------
(* What the claims about construct_paths speak of, in their own terms: the   *)
(* labels of the query name left of the base domain.                         *)

\* The hostname, dots stripped, ends with the base domain.
InDomain(hostname) == EndsWith(Strip(hostname, "."), server.domain)

\* What is left of a hostname in the domain once the base-domain suffix and
\* the surrounding dots are taken off.
Remainder(hostname) ==
    LET h == Strip(hostname, ".")
    IN  Strip(SubSeq(h, 1, Len(h) - Len(server.domain)), ".")

\* Its labels, innermost (leftmost) first; nothing left has no labels.
LabelsLeft(hostname) ==
    IF Remainder(hostname) = <<>> THEN <<>> ELSE Split(Remainder(hostname), ".")

\* The innermost label is an integer.
HasShard(hostname) ==
    LabelsLeft(hostname) # <<>> /\ PyInt(LabelsLeft(hostname)[1]).ok

\* The shard of the query: the innermost label's value, or none.
ShardOf(hostname) ==
    IF HasShard(hostname) THEN Some(PyInt(LabelsLeft(hostname)[1]).val) ELSE None

\* L1..Ln: the labels left once an integer innermost label is removed.
L(hostname) ==
    IF HasShard(hostname) THEN Tail(LabelsLeft(hostname)) ELSE LabelsLeft(hostname)

\* The k-th path (k = 0..n-1): Ln/L(n-1)/.../L(k+2)/L1.L2. ... .L(k+1).
KthPath(labels, k) ==
    LET n == Len(labels)
    IN  Join([i \in 1..(n - k - 1) |-> labels[n + 1 - i]]
                \o <<Join(SubSeq(labels, 1, k + 1), ".")>>, "/")

\* The number of '/'-separated components of a path.
Components(path) == Len(Split(path, "/"))

ExampleHostname ==
    <<"0", ".", "j", "o", "b", ".", "f", "o", "o", ".", "b", "a", "r",
      ".", "b", "a", "s", ".", "b", "u", "z", ".", "b", "a", "s", "e",
      "d", "o", "m", "a", "i", "n", ".", "e", "x", "a", "m", "p", "l",
      "e", ".", "c", "o", "m">>

ExampleBase ==
    <<"b", "a", "s", "e", "d", "o", "m", "a", "i", "n", ".", "e", "x",
        "a", "m", "p", "l", "e", ".", "c", "o", "m">>

ExamplePaths ==
    <<<<"b", "u", "z", "/", "b", "a", "s", "/", "b", "a", "r", "/", "f",
      "o", "o", "/", "j", "o", "b">>,
      <<"b", "u", "z", "/", "b", "a", "s", "/", "b", "a", "r", "/", "j",
      "o", "b", ".", "f", "o", "o">>,
      <<"b", "u", "z", "/", "b", "a", "s", "/", "j", "o", "b", ".", "f",
      "o", "o", ".", "b", "a", "r">>,
      <<"b", "u", "z", "/", "j", "o", "b", ".", "f", "o", "o", ".", "b",
      "a", "r", ".", "b", "a", "s">>,
      <<"j", "o", "b", ".", "f", "o", "o", ".", "b", "a", "r", ".", "b",
      "a", "s", ".", "b", "u", "z">>>>

\* C1: construct_paths yields exactly n candidates for the n labels L1..Ln left
\* of the base domain (the shard label removed), the k-th being
\* Ln/.../L(k+2)/L1. ... .L(k+1), all with the same shard; and the docstring's
\* example yields its five paths.
C1_CandidatesOfLabels ==
    /\ (pc = "exhausted" /\ InDomain(request.qname)) =>
        LET labels == L(request.qname)
        IN  /\ Len(yielded) = Len(labels)
            /\ \A k \in 0..(Len(yielded) - 1) :
                yielded[k + 1] = <<KthPath(labels, k), ShardOf(request.qname)>>
    /\ ConstructPaths(ExampleHostname, ExampleBase)
        = [i \in 1..5 |-> <<ExamplePaths[i], Some(0)>>]

\* C6: for a hostname ending in the base domain every yielded path is
\* non-empty and the component counts fall by one at each step down to one;
\* when no label is left of the base domain nothing is yielded.
C6_PathsNonEmptyAndShrinking ==
    (pc = "exhausted" /\ InDomain(request.qname)) =>
        /\ \A i \in 1..Len(yielded) : yielded[i][1] # <<>>
        /\ \A i \in 1..(Len(yielded) - 1) :
            Components(yielded[i + 1][1]) = Components(yielded[i][1]) - 1
        /\ yielded # <<>> => Components(yielded[Len(yielded)][1]) = 1
        /\ LabelsLeft(request.qname) = <<>> => yielded = <<>>

\* The hostname with its trailing dot taken off, or put on.
ToggleTrailingDot(hostname) ==
    IF hostname # <<>> /\ hostname[Len(hostname)] = "."
    THEN SubSeq(hostname, 1, Len(hostname) - 1)
    ELSE hostname \o <<".">>

\* C8: hostnames that differ only in letter case or in a trailing dot yield
\* the same candidates (same paths, same shard).
C8_CaseAndTrailingDotInsensitive ==
    pc = "exhausted" =>
        \A other \in {Lower(request.qname), ToggleTrailingDot(request.qname)} :
            ConstructPaths(other, server.domain) = yielded

\* C9: the shard comes from the innermost label alone: when that label is an
\* integer the shard is that integer, is not negative, and the label is in no
\* path; otherwise there is no shard and the label stays a path label; integer
\* labels elsewhere stay path labels.
C9_ShardFromInnermostLabel ==
    (pc = "exhausted" /\ InDomain(request.qname) /\ LabelsLeft(request.qname) # <<>>) =>
        LET labels == LabelsLeft(request.qname)
            n      == PyInt(labels[1])
            kept   == IF n.ok THEN Tail(labels) ELSE labels
        IN  /\ n.ok => n.val >= 0
            /\ \A i \in 1..Len(yielded) :
                yielded[i][2] = (IF n.ok THEN Some(n.val) ELSE None)
            /\ Len(yielded) = Len(kept)
            /\ yielded # <<>> => yielded[Len(yielded)][1] = Join(kept, ".")

-----------------------------------------------------------------------------
(* What the claims about the server speak of. *)

\* The request is a lookup of qtype A or ANY.
IsALookup == request.op = "lookup" /\ request.arg \in {"A", "ANY"}

\* The candidates of construct_paths for the query name.
Candidates == ConstructPaths(request.qname, server.domain)

\* The shard of the query, None if it has none.
QueryShard == GenCreate(request.qname, server.domain).shard

\* The members of a serverset.
Members(sset) == {sset[i] : i \in 1..Len(sset)}

\* The serverset holds an instance of the query's shard.
HoldsShard(sset) == \E x \in Members(sset) : x.shard = QueryShard

\* The store has been read once per candidate probed so far, in the order
\* construct_paths yields them.
ProbedInOrder ==
    /\ Len(reads) <= Len(Candidates)
    /\ \A i \in 1..Len(reads) : reads[i].zkpath = Candidates[i][1]

LastRead == reads[Len(reads)]

\* C2: without a shard the candidates are probed in order, one read each;
\* empty ones are passed over; the result is the whole set of the first
\* non-empty candidate and nothing is read after it; if all are empty the
\* result is the empty list.
C2_FirstNonEmptyWins ==
    (IsALookup /\ QueryShard = None) =>
        /\ ProbedInOrder
        /\ \A i \in 1..(Len(reads) - 1) : reads[i].sset = <<>>
        /\ pc = "resolve" => \A i \in 1..Len(reads) : reads[i].sset = <<>>
        /\ pc = "done" =>
            IF reads # <<>> /\ LastRead.sset # <<>>
            THEN resolved = LastRead.sset
            ELSE resolved = <<>> /\ Len(reads) = Len(Candidates)

\* A lookup without shard that passed over an empty candidate and returned
\* the two members of the next one.
C2_Witness ==
    /\ IsALookup /\ QueryShard = None /\ pc = "done"
    /\ Len(reads) = 2 /\ reads[1].sset = <<>>
    /\ Len(resolved) = 2 /\ resolved = reads[2].sset

\* C3: with a shard S the result is empty or one instance of shard S, taken
\* from the most specific candidate that holds one; a non-empty candidate
\* without shard S does not end the search; when no candidate holds shard S the
\* result is empty.
C3_ShardSelectsOneInstance ==
    (IsALookup /\ QueryShard # None) =>
        /\ ProbedInOrder
        /\ \A i \in 1..(Len(reads) - 1) : ~HoldsShard(reads[i].sset)
        /\ pc = "resolve" => \A i \in 1..Len(reads) : ~HoldsShard(reads[i].sset)
        /\ pc = "done" =>
            IF reads # <<>> /\ HoldsShard(LastRead.sset)
            THEN /\ Len(resolved) = 1
                 /\ resolved[1].shard = QueryShard
                 /\ resolved[1] \in Members(LastRead.sset)
            ELSE resolved = <<>> /\ Len(reads) = Len(Candidates)

\* A lookup of shard 0 that went past a non-empty candidate without shard 0
\* and returned the instance of shard 0 of the next one.
C3_Witness ==
    /\ IsALookup /\ QueryShard = Some(0) /\ pc = "done"
    /\ Len(reads) = 2 /\ reads[1].sset # <<>>
    /\ Len(resolved) = 1 /\ resolved[1].shard = Some(0)

\* C4: an A or ANY lookup answers one record per resolved instance, in order:
\* qtype A, the query name as received, the record TTL, the instance's host
\* and nothing else; no instance gives the empty list, not the negative
\* indicator.
C4_OneARecordPerInstance ==
    (IsALookup /\ pc = "done") =>
        /\ response.negative = FALSE
        /\ Len(response.result) = Len(resolved)
        /\ \A i \in 1..Len(resolved) :
            response.result[i] = [qtype   |-> "A",
                                  qname   |-> request.qname,
                                  ttl     |-> FlagTtl,
                                  content |-> resolved[i].host]

\* An ANY lookup of a name with a trailing dot answered with two records.
C4_Witness ==
    /\ request.op = "lookup" /\ request.arg = "ANY" /\ pc = "done"
    /\ request.qname # <<>> /\ request.qname[Len(request.qname)] = "."
    /\ Len(response.result) = 2
    /\ response.result[1].content # response.result[2].content

\* The SOA content of the zone served: ns1.z.c. root.z.c. 1200 1 180 86400 60
SoaContent ==
    <<"n", "s", "1", ".", "z", ".", "c", ".", " ", "r", "o", "o", "t", ".", "z", ".", "c", ".", " ", "1", "2", "0", "0", " ", "1", " ", "1", "8", "0", " ">>
        \o <<"8", "6", "4", "0", "0", " ", "6", "0">>

\* C5: a SOA lookup is answered false exactly when the name, lower-cased and
\* stripped of dots, does not end with the base domain; otherwise with the one
\* SOA record of the zone, serial 1, whatever the name and the store.
C5_SoaExactlyInDomain ==
    (request.op = "lookup" /\ request.arg = "SOA" /\ pc = "done") =>
        LET name   == Strip(Lower(request.qname), ".")
            inside == \E k \in 0..Len(name) :
                        SubSeq(name, k + 1, Len(name)) = <<"z", ".", "c">>
        IN  /\ response.negative <=> ~inside
            /\ ~inside => response.result = <<>>
            /\ inside => response.result = <<[qtype   |-> "SOA",
                                              qname   |-> <<"z", ".", "c">>,
                                              ttl     |-> FlagSoaTtl,
                                              content |-> SoaContent]>>
            /\ reads = <<>>

\* A SOA lookup of the zone written in capitals with a trailing dot, answered
\* with the record, while the store holds instances.
C5_Witness ==
    /\ request.op = "lookup" /\ request.arg = "SOA" /\ pc = "done"
    /\ request.qname = <<"Z", ".", "C", ".">>
    /\ ~response.negative /\ Len(response.result) = 1
    /\ \E p \in StorePaths : store[p] # <<>>

\* C7: a lookup of any qtype but A, ANY, SOA is answered false without a read
\* of the store; getDomainMetadata answers ['EPOCH'] for SOA-EDIT, whatever
\* the name, and false for every other kind.
C7_UnsupportedIsNegative ==
    pc = "done" =>
        /\ (request.op = "lookup" /\ request.arg \notin {"A", "ANY", "SOA"}) =>
            response = [negative |-> TRUE, result |-> <<>>] /\ reads = <<>>
        /\ (request.op = "getDomainMetadata" /\ request.arg = "SOA-EDIT") =>
            response = [negative |-> FALSE, result |-> <<"EPOCH">>]
        /\ (request.op = "getDomainMetadata" /\ request.arg # "SOA-EDIT") =>
            response = [negative |-> TRUE, result |-> <<>>]

\* A getDomainMetadata of another kind answered false.
C7_Witness ==
    /\ pc = "done" /\ request.op = "getDomainMetadata"
    /\ request.arg = "PRESIGNED" /\ response.negative

\* C10: no step of a handler changes the server's configuration or the store;
\* every serverset a lookup reads is the store's content at that moment; the
\* instances an A or ANY lookup returns are the (shard-filtered) content of one
\* path it read itself, and a lookup starts with nothing read.
C10_StatelessReadOnly ==
    [][/\ server' = server
       /\ (request' # request \/ pc' # pc \/ reads' # reads \/ response' # response)
            => store' = store
       /\ pc' = "resolve" /\ pc = "idle" => reads' = <<>> /\ yielded' = <<>>
       /\ Len(reads') = Len(reads) + 1 =>
            reads'[Len(reads')].sset = ReadServerSet(store, reads'[Len(reads')].zkpath)
       /\ (pc = "resolve" /\ pc' = "done" /\ resolved' # <<>>) =>
            /\ Len(reads') = Len(reads) + 1
            /\ IF QueryShard = None
               THEN resolved' = reads'[Len(reads')].sset
               ELSE /\ Len(resolved') = 1
                    /\ resolved'[1] \in Members(reads'[Len(reads')].sset)
                    /\ resolved'[1].shard = QueryShard
      ]_vars

\* A lookup answered from its second candidate, whose first candidate was
\* empty when it was read and has been filled in the store since.
C10_Witness ==
    /\ IsALookup /\ pc = "done" /\ resolved # <<>>
    /\ Len(reads) = 2 /\ reads[1].sset = <<>>
    /\ store[reads[1].zkpath] # <<>>

====
